---- MODULE Spec2Model ----
(***************************************************************************)
(* Model of the mycoder agent runtime: the conversation orchestrator      *)
(* (core/toolAgent.ts: toolAgent, processResponse, executeTools) and the   *)
(* tool dispatcher it calls, and the sub-agent supervisor built on it      *)
(* (tools/interaction/subAgentStart.ts, subAgentMessage.ts), and the shell  *)
(* session manager (tools/system/shellStart.ts, shellMessage.ts).          *)
(*                                                                         *)
(* Strings are sequences of string fragments (concatenation is \o, the     *)
(* empty string is <<>>); an optional value (T | undefined) is a sequence  *)
(* of length at most one.                                                  *)
(***************************************************************************)
EXTENDS Integers, Sequences, FiniteSets, TLC

VARIABLES
    apiKey,             \* process.env.ANTHROPIC_API_KEY is set
    pc,                 \* position of the async executor of donePromise
    initialPrompt,      \* argument of toolAgent
    i,                  \* loop variable of the for loop
    interactions,
    totalInputTokens,
    totalOutputTokens,
    currentResult,      \* string | undefined
    currentError,       \* Error | undefined
    outMessages,        \* everything pushed on the Readable, in order
    messages,           \* the conversation history sent to the provider
    donePromise,        \* state of the promise returned as state.done
    handle,             \* the data properties of the returned ToolAgentState
    toolCalls,          \* the batch being executed by executeTools
    results,            \* per call of the batch: settled result | undefined
    threw,              \* per call of the batch: executeToolCall threw
    requests,           \* number of client.messages.create calls issued
    inflight,           \* number of them not yet settled
    responses,          \* the responses received so far, in order
    inWritten,          \* chunks the caller wrote to inMessages
    settleOrder,        \* the calls of the batch, in the order they settled
    subAgentStates,     \* the registry: instanceId -> {prompt, messages, aborted}
    runOwner,           \* the instance whose toolAgentState the variables above are
    startPromise,       \* per instance: the promise returned by subAgentStart
    delivered,          \* number of events of outMessages emitted to the handlers
    msgCalls,           \* subAgentMessage calls awaiting anthropic.messages.create
    lastCall,           \* the last subAgentMessage call and how it went so far
    abortedByCall,      \* the instances a subAgentMessage call aborted
    callCount,          \* number of subAgentMessage calls made
    processStates,      \* the shell registry: instanceId -> the instance
    shellCall,          \* the shellMessage call that has acted and not yet read
    shellResult,        \* what the last shellMessage call returned
    shellProduced,      \* per instance: everything its process has written
    shellReturned,      \* per instance: everything the reads have returned
    shellCount,         \* number of shellMessage calls made
    shellUsed,          \* the identifiers shellStart has handed out
    shellClears         \* number of processStates.clear() calls

vars == <<apiKey, pc, initialPrompt, i, interactions, totalInputTokens,
          totalOutputTokens, currentResult, currentError, outMessages,
          messages, donePromise, handle, toolCalls, results, threw,
          requests, inflight, responses, inWritten, settleOrder,
          subAgentStates, runOwner, startPromise, delivered, msgCalls, lastCall,
          abortedByCall, callCount,
          processStates, shellCall, shellResult, shellProduced, shellReturned,
          shellCount, shellUsed, shellClears>>

\* the state of the shell session manager
shellVars == <<processStates, shellCall, shellResult, shellProduced, shellReturned,
               shellCount, shellUsed, shellClears>>

\* the state of the sub-agent supervisor
subVars == <<subAgentStates, runOwner, startPromise, delivered, msgCalls, lastCall,
             abortedByCall, callCount>>

(***************************************************************************)
(* Bounds and inputs                                                       *)
(***************************************************************************)
\* config.maxIterations of the run under check (CONFIG sets 50)
maxIterations == 2

Prompts == {<<"Test prompt">>}

\* tools passed to toolAgent (the tool set of the test file)
ToolNames == {"sequenceComplete", "mockTool"}

\* names the provider may put in a tool_use block
CallNames == ToolNames \cup {"nonexistentTool"}

Text(t) == [type |-> "text", text |-> t]
ToolUse(n, inp) == [type |-> "tool_use", name |-> n, input |-> inp]

\* content blocks of a provider response, before the id is assigned
Blocks ==
    {Text(<<"Processing your request...">>)}
    \cup {ToolUse("sequenceComplete", <<"A">>), ToolUse("sequenceComplete", <<"B">>)}
    \cup {ToolUse("mockTool", <<"A">>), ToolUse("nonexistentTool", <<"A">>)}

Contents ==
    {<<>>} \cup {<<a>> : a \in Blocks} \cup {<<a, b>> : a \in Blocks, b \in Blocks}

\* usage reported with a response
Usages == {[input_tokens |-> 10, output_tokens |-> 7]}

\* chunks a caller may write on the inbound control channel
Chunks == {[type |-> "abort"]}

(***************************************************************************)
(* Values                                                                  *)
(***************************************************************************)
Undefined == <<>>
Def(v) == <<v>>
IsDef(o) == Len(o) > 0

ApiKeyError == [name |-> "Error", message |-> <<"getAnthropicApiKeyError()">>]
ProviderError == [name |-> "APIError", message |-> <<"request failed">>]

EmptyResult == <<"Agent returned empty message implying it is done its given task">>
EmptyCompletion == <<"Sequence explicitly completed with an empty result">>
MaxIterResult == <<"Maximum sub-agent iterations reached without successful completion">>

EndOfStream == [type |-> "null"]

Pending == [state |-> "pending", value |-> Undefined, reason |-> Undefined]

\* a Map with no entry
EmptyMap == [id \in {} |-> 0]

\* no subAgentMessage call was made yet
NoCall == [instanceId |-> "", abort |-> FALSE, wasAborted |-> FALSE, outcome |-> ""]

\* no shellMessage call has returned yet
NoShellResult ==
    [instanceId |-> "", stdin |-> Undefined, signal |-> Undefined,
     wasCompleted |-> FALSE, stdout |-> <<>>, stderr |-> <<>>,
     completed |-> FALSE, signaled |-> FALSE, error |-> Undefined, threw |-> FALSE]

(***************************************************************************)
(* Init: the process before toolAgent is called                            *)
(***************************************************************************)
Init ==
    /\ apiKey \in BOOLEAN
    /\ pc = "new"
    /\ initialPrompt = <<>>
    /\ i = 0
    /\ interactions = 0
    /\ totalInputTokens = 0
    /\ totalOutputTokens = 0
    /\ currentResult = Undefined
    /\ currentError = Undefined
    /\ outMessages = <<>>
    /\ messages = <<>>
    /\ donePromise = Pending
    /\ handle = [input_tokens |-> 0, output_tokens |-> 0]
    /\ toolCalls = <<>>
    /\ results = <<>>
    /\ threw = <<>>
    /\ requests = 0
    /\ inflight = 0
    /\ responses = <<>>
    /\ inWritten = {}
    /\ settleOrder = <<>>
    /\ subAgentStates = EmptyMap
    /\ runOwner = ""
    /\ startPromise = EmptyMap
    /\ delivered = 0
    /\ msgCalls = <<>>
    /\ lastCall = NoCall
    /\ abortedByCall = {}
    /\ callCount = 0
    /\ processStates = EmptyMap
    /\ shellCall = Undefined
    /\ shellResult = NoShellResult
    /\ shellProduced = EmptyMap
    /\ shellReturned = EmptyMap
    /\ shellCount = 0
    /\ shellUsed = {}
    /\ shellClears = 0

(***************************************************************************)
(* Pure functions                                                          *)
(***************************************************************************)
\* the provider's response: the blocks, each tool_use carrying a fresh id
Response(content, usage, n) ==
    [content |-> [k \in DOMAIN content |->
                    IF content[k].type = "tool_use"
                    THEN [type |-> "tool_use", name |-> content[k].name,
                          id |-> <<n, k>>, input |-> content[k].input]
                    ELSE content[k]],
     usage |-> usage]

IsText(c) == c.type = "text"
IsToolUse(c) == c.type = "tool_use"

\* processResponse: text and tool_use blocks in order; the tool_use ones again
processResponse(response) ==
    [content |-> SelectSeq(response.content, LAMBDA m : IsText(m) \/ IsToolUse(m)),
     toolCalls |-> SelectSeq(response.content, IsToolUse)]

\* content.filter(text).map(text).join("\n")
RECURSIVE JoinNL(_)
JoinNL(texts) ==
    IF Len(texts) = 0 THEN <<>>
    ELSE IF Len(texts) = 1 THEN texts[1]
    ELSE texts[1] \o <<"\n">> \o JoinNL(Tail(texts))

AssistantMessage(content) ==
    LET texts == SelectSeq(content, IsText)
    IN  JoinNL([k \in DOMAIN texts |-> texts[k].text])

\* truthiness of a string
Truthy(str) == \E k \in DOMAIN str : str[k] # ""

\* the tools of the run: what execute returns for an input
ToolOutput(call) ==
    IF call.name = "sequenceComplete" THEN call.input
    ELSE <<"Processed: ">> \o call.input

NoError == [name |-> "", message |-> <<>>]

\* executeToolCall(call, tools, logger): the ways it can settle
executeToolCall(call) ==
    IF call.name \notin ToolNames
    THEN {[threw |-> TRUE, value |-> <<>>,
           error |-> [name |-> "Error",
                      message |-> <<"No tool with the name '", call.name, "' exists.">>]]}
    ELSE {[threw |-> FALSE, value |-> ToolOutput(call), error |-> NoError],
          [threw |-> TRUE, value |-> <<>>,
           error |-> [name |-> "Error", message |-> <<"Deliberate failure">>]]}

ErrorContent(error) ==
    <<"Error: Exception thrown during tool execution.  Type: ", error.name,
      ", Message: ">> \o error.message

\* CallResult without the try/catch: a call that threw leaves no text
CallResultNoCatch(call, outcome) ==
    [type |-> "tool_result",
     tool_use_id |-> call.id,
     content |-> outcome.value,
     isComplete |-> call.name = "sequenceComplete"]

\* the callback mapped over toolCalls in executeTools
CallResult(call, outcome) ==
    [type |-> "tool_result",
     tool_use_id |-> call.id,
     content |-> IF outcome.threw THEN ErrorContent(outcome.error) ELSE outcome.value,
     isComplete |-> call.name = "sequenceComplete"]

\* a slot of the Promise.all array that is not filled yet
Unsettled == [settled |-> FALSE,
              value |-> [type |-> "tool_result", tool_use_id |-> <<0, 0>>,
                         content |-> <<>>, isComplete |-> FALSE]]

\* AllSettled as Promise.race: the first settled call ends the wait
AnySettled(rs) == \E k \in DOMAIN rs : rs[k].settled

\* Promise.all: every mapped promise has settled
AllSettled(rs) == \A k \in DOMAIN rs : rs[k].settled

\* ToolResults that loses the last result of a batch of several
ToolResultsDropLast(rs) ==
    [k \in 1..(IF Len(rs) > 1 THEN Len(rs) - 1 ELSE Len(rs)) |->
        [type |-> rs[k].value.type,
         tool_use_id |-> rs[k].value.tool_use_id,
         content |-> rs[k].value.content]]

\* ToolResults in the order in which the calls settled
ToolResultsSettleOrder(rs) ==
    [k \in DOMAIN rs |-> [type |-> rs[settleOrder[k]].value.type,
                          tool_use_id |-> rs[settleOrder[k]].value.tool_use_id,
                          content |-> rs[settleOrder[k]].value.content]]

\* results.map(({type, tool_use_id, content}) => ...)
ToolResults(rs) ==
    [k \in DOMAIN rs |-> [type |-> rs[k].value.type,
                          tool_use_id |-> rs[k].value.tool_use_id,
                          content |-> rs[k].value.content]]

\* SequenceCompleted as results.every
SequenceCompletedEvery(rs) == \A k \in DOMAIN rs : rs[k].value.isComplete

\* results.some((r) => r.isComplete)
SequenceCompleted(rs) == \E k \in DOMAIN rs : rs[k].value.isComplete

\* CompletionResult that takes the last completion result
CompletionResultLast(rs) ==
    IF SequenceCompleted(rs)
    THEN LET last == CHOOSE k \in DOMAIN rs :
                         /\ rs[k].value.isComplete
                         /\ \A j \in DOMAIN rs : rs[j].value.isComplete => j <= k
         IN  Def(rs[last].value.content)
    ELSE Undefined

\* results.find((r) => r.isComplete)?.content
CompletionResult(rs) ==
    IF SequenceCompleted(rs)
    THEN LET first == CHOOSE k \in DOMAIN rs :
                          /\ rs[k].value.isComplete
                          /\ \A j \in DOMAIN rs : rs[j].value.isComplete => k <= j
         IN  Def(rs[first].value.content)
    ELSE Undefined

\* EmptyContent that never holds
EmptyContentNever(response) == FALSE

\* !response.content.length
EmptyContent(response) == Len(response.content) = 0

\* a ?? b
Coalesce(o, dflt) == IF IsDef(o) THEN o[1] ELSE dflt

\* a request that is not counted
CountInteractionNever(n) == n

\* interactions++
CountInteraction(n) == n + 1

\* LoopContinues off by one
LoopContinuesInclusive(n) == n <= maxIterations

\* the for loop's condition
LoopContinues(n) == n < maxIterations

\* CredentialMissing without the check
CredentialNeverMissing(key) == FALSE

\* if (!apiKey)
CredentialMissing(key) == ~key

\* Resolved without the call of resolve
ResolvedNever(result) == Pending

\* resolve(result)
Resolved(result) == [state |-> "resolved", value |-> Def(result), reason |-> Undefined]

\* Rejected without the call of reject
RejectedNever(error) == Pending

\* reject(error)
Rejected(error) == [state |-> "rejected", value |-> Undefined, reason |-> Def(error)]

\* PushTerminal without the push of null
PushTerminalNoEnd(stream, event) == Append(stream, event)

\* outMessages.push(event); outMessages.push(null)
PushTerminal(stream, event) == stream \o <<event, EndOfStream>>

(***************************************************************************)
(* Terminal steps of the executor                                          *)
(***************************************************************************)
\* currentResult = res; push complete; push null; resolve(result); return
Complete(res, tin, tout) ==
    LET result == [result |-> res,
                   tokens |-> [input |-> tin, output |-> tout],
                   interactions |-> interactions]
    IN  /\ currentResult' = Def(res)
        /\ outMessages' = PushTerminal(outMessages, [type |-> "complete", content |-> result])
        /\ donePromise' = Resolved(result)
        /\ pc' = "done"
        /\ UNCHANGED currentError

\* currentError = error; push error; push null; reject(error)
Fail(stream, error) ==
    /\ currentError' = Def(error)
    /\ outMessages' = PushTerminal(stream, [type |-> "error", content |-> error])
    /\ donePromise' = Rejected(error)
    /\ pc' = "done"
    /\ UNCHANGED currentResult

(***************************************************************************)
(* Actions                                                                 *)
(***************************************************************************)
\* toolAgent(initialPrompt, tools, logger, config): the synchronous part, up to
\* the executor's first await or its early return. The call creates the streams
\* and the counters of the run.
ToolAgentCall(prompt) ==
    /\ initialPrompt' = prompt
    /\ i' = 0
    /\ interactions' = 0
    /\ totalInputTokens' = 0
    /\ totalOutputTokens' = 0
    /\ handle' = [input_tokens |-> 0, output_tokens |-> 0]
    /\ LET stream == <<[type |-> "user", content |-> prompt]>>
       IN  IF CredentialMissing(apiKey)
           THEN /\ Fail(stream, ApiKeyError)
                /\ messages' = <<>>
           ELSE /\ outMessages' = stream
                /\ messages' = <<[role |-> "user", content |-> <<Text(prompt)>>]>>
                /\ pc' = "getSystemPrompt"
                /\ currentResult' = Undefined
                /\ currentError' = Undefined
                /\ donePromise' = Pending
    /\ toolCalls' = <<>>
    /\ results' = <<>>
    /\ threw' = <<>>
    /\ settleOrder' = <<>>
    /\ requests' = 0
    /\ inflight' = 0
    /\ responses' = <<>>
    /\ inWritten' = {}
    /\ UNCHANGED apiKey

\* a caller starts a run
ToolAgent(prompt) ==
    /\ pc = "new"
    /\ ToolAgentCall(prompt)
    /\ UNCHANGED subVars
    /\ UNCHANGED shellVars

\* await config.getSystemPrompt() settles; the for loop starts
GetSystemPrompt ==
    /\ pc = "getSystemPrompt"
    /\ pc' = "loop"
    /\ i' = 0
    /\ UNCHANGED <<apiKey, initialPrompt, interactions, totalInputTokens,
                   totalOutputTokens, currentResult, currentError, outMessages,
                   messages, donePromise, handle, toolCalls, results, threw,
                   requests, inflight, responses, inWritten>>
    /\ UNCHANGED settleOrder
    /\ UNCHANGED subVars
    /\ UNCHANGED shellVars

\* loop condition holds: interactions++; client.messages.create(...) is issued
RequestCompletion ==
    /\ pc = "loop"
    /\ LoopContinues(i)
    /\ interactions' = CountInteraction(interactions)
    /\ requests' = requests + 1
    /\ inflight' = inflight + 1
    /\ pc' = "awaitModel"
    /\ UNCHANGED <<apiKey, initialPrompt, i, totalInputTokens, totalOutputTokens,
                   currentResult, currentError, outMessages, messages, donePromise,
                   handle, toolCalls, results, threw, responses, inWritten>>
    /\ UNCHANGED settleOrder
    /\ UNCHANGED subVars
    /\ UNCHANGED shellVars

\* loop condition fails: the cap is reported as a result
MaxIterationsReached ==
    /\ pc = "loop"
    /\ ~LoopContinues(i)
    /\ Complete(MaxIterResult, totalInputTokens, totalOutputTokens)
    /\ UNCHANGED <<apiKey, initialPrompt, i, interactions, totalInputTokens,
                   totalOutputTokens, messages, handle, toolCalls, results, threw,
                   requests, inflight, responses, inWritten>>
    /\ UNCHANGED settleOrder
    /\ UNCHANGED subVars
    /\ UNCHANGED shellVars

\* client.messages.create rejects: the catch block
ModelFail ==
    /\ pc = "awaitModel"
    /\ inflight' = inflight - 1
    /\ Fail(outMessages, ProviderError)
    /\ UNCHANGED <<apiKey, initialPrompt, i, interactions, totalInputTokens,
                   totalOutputTokens, messages, handle, toolCalls, results, threw,
                   requests, responses, inWritten>>
    /\ UNCHANGED settleOrder
    /\ UNCHANGED subVars
    /\ UNCHANGED shellVars

\* client.messages.create resolves: the loop body up to the await in executeTools
ModelRespond(content, usage) ==
    /\ pc = "awaitModel"
    /\ inflight' = inflight - 1
    /\ LET response == Response(content, usage, requests)
           processed == processResponse(response)
           assistantMessage == AssistantMessage(processed.content)
       IN  /\ responses' = Append(responses, response)
           /\ IF EmptyContent(response)
              THEN /\ Complete(EmptyResult, totalInputTokens, totalOutputTokens)
                   /\ UNCHANGED <<i, totalInputTokens, totalOutputTokens, messages,
                                  toolCalls, results, threw, settleOrder>>
              ELSE /\ totalInputTokens' = totalInputTokens + response.usage.input_tokens
                   /\ totalOutputTokens' = totalOutputTokens + response.usage.output_tokens
                   /\ messages' = Append(messages, [role |-> "assistant",
                                                    content |-> processed.content])
                   /\ outMessages' =
                        IF Truthy(assistantMessage)
                        THEN Append(outMessages, [type |-> "assistant",
                                                  content |-> assistantMessage])
                        ELSE outMessages
                   /\ IF Len(processed.toolCalls) = 0
                      THEN /\ i' = i + 1
                           /\ pc' = "loop"
                           /\ UNCHANGED <<toolCalls, results, threw, settleOrder>>
                      ELSE /\ toolCalls' = processed.toolCalls
                           /\ results' = [k \in DOMAIN processed.toolCalls |-> Unsettled]
                           /\ threw' = [k \in DOMAIN processed.toolCalls |-> FALSE]
                           /\ settleOrder' = <<>>
                           /\ pc' = "awaitTools"
                           /\ UNCHANGED i
                   /\ UNCHANGED <<currentResult, currentError, donePromise>>
    /\ UNCHANGED <<apiKey, initialPrompt, interactions, handle, requests, inWritten>>
    /\ UNCHANGED subVars
    /\ UNCHANGED shellVars

\* one mapped call of the batch settles: executeToolCall returns or throws
ToolSettle(k, outcome) ==
    /\ pc = "awaitTools"
    /\ k \in DOMAIN toolCalls
    /\ ~results[k].settled
    /\ outcome \in executeToolCall(toolCalls[k])
    /\ results' = [results EXCEPT ![k] = [settled |-> TRUE,
                                          value |-> CallResult(toolCalls[k], outcome)]]
    /\ threw' = [threw EXCEPT ![k] = outcome.threw]
    /\ UNCHANGED <<apiKey, pc, initialPrompt, i, interactions, totalInputTokens,
                   totalOutputTokens, currentResult, currentError, outMessages,
                   messages, donePromise, handle, toolCalls, requests, inflight,
                   responses, inWritten>>
    /\ settleOrder' = Append(settleOrder, k)
    /\ UNCHANGED subVars
    /\ UNCHANGED shellVars

\* Promise.all resolves: the rest of executeTools and of the loop body
ExecuteToolsReturn ==
    /\ pc = "awaitTools"
    /\ AllSettled(results)
    /\ messages' = Append(messages, [role |-> "user", content |-> ToolResults(results)])
    /\ IF SequenceCompleted(results)
       THEN /\ Complete(Coalesce(CompletionResult(results), EmptyCompletion),
                        totalInputTokens, totalOutputTokens)
            /\ UNCHANGED i
       ELSE /\ i' = i + 1
            /\ pc' = "loop"
            /\ UNCHANGED <<currentResult, currentError, outMessages, donePromise>>
    /\ UNCHANGED <<apiKey, initialPrompt, interactions, totalInputTokens,
                   totalOutputTokens, handle, toolCalls, results, threw, requests,
                   inflight, responses, inWritten>>
    /\ UNCHANGED settleOrder
    /\ UNCHANGED subVars
    /\ UNCHANGED shellVars

\* the caller writes a chunk to state.inMessages: write() only calls callback()
WriteInMessages(chunk) ==
    /\ pc # "new"
    /\ inWritten' = inWritten \cup {chunk}
    /\ UNCHANGED <<apiKey, pc, initialPrompt, i, interactions, totalInputTokens,
                   totalOutputTokens, currentResult, currentError, outMessages,
                   messages, donePromise, handle, toolCalls, results, threw,
                   requests, inflight, responses>>
    /\ UNCHANGED settleOrder
    /\ UNCHANGED subVars
    /\ UNCHANGED shellVars

Next ==
    \/ \E prompt \in Prompts : ToolAgent(prompt)
    \/ GetSystemPrompt
    \/ RequestCompletion
    \/ MaxIterationsReached
    \/ ModelFail
    \/ \E content \in Contents, usage \in Usages : ModelRespond(content, usage)
    \/ \E k \in DOMAIN toolCalls : \E outcome \in executeToolCall(toolCalls[k]) :
            ToolSettle(k, outcome)
    \/ ExecuteToolsReturn
    \/ \E chunk \in Chunks : WriteInMessages(chunk)

Spec == Init /\ [][Next]_vars

\* every await of the run eventually settles
FairSpec ==
    /\ Spec
    /\ WF_vars(GetSystemPrompt)
    /\ WF_vars(RequestCompletion)
    /\ WF_vars(MaxIterationsReached)
    /\ WF_vars(ModelFail \/ \E content \in Contents, usage \in Usages : ModelRespond(content, usage))
    /\ WF_vars(\E prompt \in Prompts : ToolAgent(prompt))
    /\ WF_vars(\E k \in DOMAIN toolCalls : \E outcome \in executeToolCall(toolCalls[k]) :
                    ToolSettle(k, outcome))
    /\ WF_vars(ExecuteToolsReturn)

(***************************************************************************)
(* The sub-agent supervisor                                                *)
(***************************************************************************)
\* the variables of one toolAgent run
runVars == <<apiKey, pc, initialPrompt, i, interactions, totalInputTokens,
             totalOutputTokens, currentResult, currentError, outMessages,
             messages, donePromise, handle, toolCalls, results, threw,
             requests, inflight, responses, inWritten, settleOrder>>

\* number of subAgentMessage calls followed
MaxCalls == 2

\* the identifiers uuidv4 returns
InstanceIds == {"id1", "id2"}

\* the instanceId parameter of subAgentMessage
CallIds == InstanceIds \cup {"invalid-id"}

\* the optional message parameter of subAgentMessage
UserMessages == {Undefined, Def(<<"Test message">>)}

\* what the provider answers to the nested run of a sub-agent
SubContents ==
    {<<>>,
     <<Text(<<"Initial response from sub-agent">>)>>,
     <<ToolUse("nonexistentTool", <<"A">>)>>,
     <<ToolUse("sequenceComplete", <<"A">>)>>}

\* what anthropic.messages.create settles with in subAgentMessage
Replies ==
    {[threw |-> FALSE, content |-> <<Text(<<"Response to message">>)>>],
     [threw |-> FALSE, content |-> <<>>],
     [threw |-> TRUE, content |-> <<>>]}

\* how a subAgentMessage call goes: the errors it throws, what it returns
KeyNotSet == "ANTHROPIC_API_KEY environment variable is not set"
NotFound == "Sub-agent not found"
HasBeenAborted == "Sub-agent has been aborted"
SubAgentAborted == "returned: Sub-agent aborted"
MessageRequired == "Message is required when not aborting"
Awaiting == "awaiting anthropic.messages.create"
InvalidResponse == "Invalid response from Anthropic API"
ApiFailure == "anthropic.messages.create rejected"
Returned == "returned: response"

StreamEndedError == "Stream ended without receiving assistant message"

\* MessageOutcome without the check of state.aborted
MessageOutcomeNoLatch(key, states, id, message, abort) ==
    IF ~key THEN KeyNotSet
    ELSE IF id \notin DOMAIN states THEN NotFound
    ELSE IF abort THEN SubAgentAborted
    ELSE IF ~(IsDef(message) /\ Truthy(message[1])) THEN MessageRequired
    ELSE Awaiting

\* MessageOutcome that takes a missing entry for an aborted one
MessageOutcomeNoLookup(key, states, id, message, abort) ==
    IF ~key THEN KeyNotSet
    ELSE IF id \notin DOMAIN states \/ states[id].aborted THEN HasBeenAborted
    ELSE IF abort THEN SubAgentAborted
    ELSE IF ~(IsDef(message) /\ Truthy(message[1])) THEN MessageRequired
    ELSE Awaiting

\* subAgentMessage up to its await: the checks, in the order of the code
MessageOutcome(key, states, id, message, abort) ==
    IF ~key THEN KeyNotSet
    ELSE IF id \notin DOMAIN states THEN NotFound
    ELSE IF states[id].aborted THEN HasBeenAborted
    ELSE IF abort THEN SubAgentAborted
    ELSE IF ~(IsDef(message) /\ Truthy(message[1])) THEN MessageRequired
    ELSE Awaiting

\* the messages array sent by subAgentMessage
History(state, message) ==
    <<[role |-> "user", content |-> state.prompt]>>
    \o state.messages
    \o <<[role |-> "user", content |-> message]>>

\* response.content?.[0]?.text
FirstText(content) ==
    IF Len(content) > 0 /\ content[1].type = "text" /\ Truthy(content[1].text)
    THEN Def(content[1].text)
    ELSE Undefined

\* s without its k-th element
RemoveAt(s, k) == SubSeq(s, 1, k - 1) \o SubSeq(s, k + 1, Len(s))

\* endHandler that rejects whether or not a message was received
EndRejectsAlways(messageReceived) == TRUE

\* endHandler: the end of the stream is a failure of the spawn only when no
\* assistant event was received
EndRejects(messageReceived) == ~messageReceived

\* subAgentStart.execute up to the promise it returns: a fresh identifier, the
\* nested toolAgent run, the registry entry and the handlers. The model follows
\* one nested run at a time: the next spawn waits for the stream of the previous
\* run to have ended and to have been emitted.
SubAgentStart(prompt, id) ==
    /\ id \in InstanceIds \ DOMAIN subAgentStates
    /\ \/ pc = "new"
       \/ pc = "done" /\ delivered = Len(outMessages)
    /\ ToolAgentCall(prompt)
    /\ subAgentStates' =
           (id :> [prompt |-> prompt, messages |-> <<>>, aborted |-> FALSE]) @@ subAgentStates
    /\ runOwner' = id
    /\ startPromise' =
           (id :> [messageReceived |-> FALSE, state |-> "pending",
                   response |-> Undefined, error |-> ""]) @@ startPromise
    /\ delivered' = 0
    /\ UNCHANGED <<msgCalls, lastCall, abortedByCall, callCount>>
    /\ UNCHANGED shellVars

\* the nested stream emits its next event: messageHandler on data, endHandler
\* on end
Deliver ==
    /\ runOwner \in DOMAIN subAgentStates
    /\ delivered < Len(outMessages)
    /\ delivered' = delivered + 1
    /\ LET e == outMessages[delivered + 1]
           id == runOwner
           sp == startPromise[id]
       IN  IF e.type = "null"
           THEN IF EndRejects(sp.messageReceived)
                THEN /\ subAgentStates' = [subAgentStates EXCEPT ![id].aborted = TRUE]
                     /\ startPromise' = [startPromise EXCEPT
                                            ![id].state = "rejected",
                                            ![id].error = StreamEndedError]
                ELSE UNCHANGED <<subAgentStates, startPromise>>
           ELSE IF e.type = "assistant" /\ ~sp.messageReceived
                THEN /\ subAgentStates' =
                            [subAgentStates EXCEPT ![id].messages =
                                @ \o <<[role |-> "user", content |-> subAgentStates[id].prompt],
                                       [role |-> "assistant", content |-> e.content]>>]
                     /\ startPromise' = [startPromise EXCEPT
                                            ![id].messageReceived = TRUE,
                                            ![id].state = "resolved",
                                            ![id].response = Def(e.content)]
                ELSE UNCHANGED <<subAgentStates, startPromise>>
    /\ UNCHANGED <<runOwner, msgCalls, lastCall, abortedByCall, callCount>>
    /\ UNCHANGED runVars
    /\ UNCHANGED shellVars

\* an abort that marks every registered instance
MarkAbortedAll(states, id) == [j \in DOMAIN states |-> [states[j] EXCEPT !.aborted = TRUE]]

\* state.aborted = true on the entry the call looked up
MarkAborted(states, id) == [states EXCEPT ![id].aborted = TRUE]

\* subAgentMessage.execute up to its await, its return or its throw
SubAgentMessage(id, message, abort) ==
    /\ callCount < MaxCalls
    /\ callCount' = callCount + 1
    /\ LET outcome == MessageOutcome(apiKey, subAgentStates, id, message, abort)
           known == id \in DOMAIN subAgentStates
       IN  /\ lastCall' = [instanceId |-> id, abort |-> abort,
                           wasAborted |-> known /\ subAgentStates[id].aborted,
                           outcome |-> outcome]
           /\ IF outcome = SubAgentAborted
              THEN /\ subAgentStates' = MarkAborted(subAgentStates, id)
                   /\ abortedByCall' = abortedByCall \cup {id}
              ELSE UNCHANGED <<subAgentStates, abortedByCall>>
           /\ IF outcome = Awaiting
              THEN msgCalls' = Append(msgCalls,
                                      [instanceId |-> id, message |-> message[1],
                                       messages |-> History(subAgentStates[id], message[1])])
              ELSE UNCHANGED msgCalls
    /\ UNCHANGED <<runOwner, startPromise, delivered>>
    /\ UNCHANGED runVars
    /\ UNCHANGED shellVars

\* anthropic.messages.create settles for call k: the rest of subAgentMessage
MessageSettle(k, reply) ==
    /\ k \in DOMAIN msgCalls
    /\ msgCalls' = RemoveAt(msgCalls, k)
    /\ LET call == msgCalls[k]
           text == FirstText(reply.content)
           outcome == IF reply.threw THEN ApiFailure
                      ELSE IF ~IsDef(text) THEN InvalidResponse
                      ELSE Returned
       IN  /\ lastCall' = [instanceId |-> call.instanceId, abort |-> FALSE,
                           wasAborted |-> FALSE, outcome |-> outcome]
           /\ IF outcome = Returned
              THEN subAgentStates' =
                       [subAgentStates EXCEPT ![call.instanceId].messages =
                           @ \o <<[role |-> "user", content |-> call.message],
                                  [role |-> "assistant", content |-> text[1]]>>]
              ELSE UNCHANGED subAgentStates
    /\ UNCHANGED <<runOwner, startPromise, delivered, abortedByCall, callCount>>
    /\ UNCHANGED runVars
    /\ UNCHANGED shellVars

SubNext ==
    \/ \E prompt \in Prompts, id \in InstanceIds : SubAgentStart(prompt, id)
    \/ GetSystemPrompt
    \/ RequestCompletion
    \/ MaxIterationsReached
    \/ ModelFail
    \/ \E content \in SubContents, usage \in Usages : ModelRespond(content, usage)
    \/ \E k \in DOMAIN toolCalls : \E outcome \in executeToolCall(toolCalls[k]) :
            ToolSettle(k, outcome)
    \/ ExecuteToolsReturn
    \/ Deliver
    \/ \E id \in CallIds, message \in UserMessages, abort \in BOOLEAN :
            SubAgentMessage(id, message, abort)
    \/ \E k \in DOMAIN msgCalls, reply \in Replies : MessageSettle(k, reply)

SubSpec == Init /\ [][SubNext]_vars

(***************************************************************************)
(* The shell session manager                                               *)
(***************************************************************************)
\* number of chunks a process writes
MaxChunks == 2

\* number of shellMessage calls followed
MaxInteracts == 3

\* the identifiers shellStart returns (one session is followed)
ShellIds == {"s1"}

\* the instanceId parameter of shellMessage
ShellCallIds == ShellIds \cup {"nonexistent-id"}

\* the optional stdin parameter of shellMessage
Stdins == {Undefined, Def(<<"hello world">>)}

\* the optional signal parameter of shellMessage
Signals == {Undefined, Def("SIGTERM"), Def("SIGINT")}

\* the output streams of a process
Streams == {"stdout", "stderr"}

\* how shellStart goes: the process outlives the timeout, or it does not
StartModes == {"async", "sync"}

NoProcessFound == "No process found"

\* the instance shellStart registers in asynchronous mode
NewInstance ==
    [stdout |-> <<>>, stderr |-> <<>>, completed |-> FALSE, signaled |-> FALSE,
     killed |-> Undefined, exit |-> Undefined]

\* nothing written, nothing returned yet
NoOutput == [stdout |-> <<>>, stderr |-> <<>>]

\* f with key k set to v
Put(f, k, v) == (k :> v) @@ f

\* f without key k
Remove(f, k) == [j \in DOMAIN f \ {k} |-> f[j]]

\* a data callback that keeps only the latest chunk
CaptureLatest(inst, stream, chunk) ==
    IF stream = "stdout"
    THEN [inst EXCEPT !.stdout = <<chunk>>]
    ELSE [inst EXCEPT !.stderr = <<chunk>>]

\* the data callback of a stream of the process: the chunk is appended to the
\* buffer of the stream
Capture(inst, stream, chunk) ==
    IF stream = "stdout"
    THEN [inst EXCEPT !.stdout = Append(@, chunk)]
    ELSE [inst EXCEPT !.stderr = Append(@, chunk)]

\* an exit callback that forgets that the instance was signaled
ExitedResetsSignal(inst) ==
    [inst EXCEPT !.completed = TRUE, !.signaled = FALSE,
                 !.exit = IF IsDef(inst.killed) THEN inst.killed ELSE Def("0")]

\* the exit callback of the process: the instance is completed and keeps how the
\* process ended
Exited(inst) ==
    [inst EXCEPT !.completed = TRUE,
                 !.exit = IF IsDef(inst.killed) THEN inst.killed ELSE Def("0")]

\* an exit callback that takes the instance out of the registry
OnExitEvict(states, id) == Remove(states, id)

\* the registry after the exit callback of instance id
OnExit(states, id) == [states EXCEPT ![id] = Exited(@)]

\* a signal delivered without recording it
DeliverSignalUnrecorded(inst, sig) == [inst EXCEPT !.killed = Def(sig)]

\* a signal delivered to the running process of the instance
DeliverSignal(inst, sig) == [inst EXCEPT !.signaled = TRUE, !.killed = Def(sig)]

\* text written to the input stream of the running process: it goes to the
\* process, the instance is as before
WriteStdin(inst, text) == inst

\* the buffers are emptied by a read
Drain(inst) == [inst EXCEPT !.stdout = <<>>, !.stderr = <<>>]

\* an unknown identifier reported by throwing
NotFoundThrows(call) ==
    call @@ [stdout |-> <<>>, stderr |-> <<>>, completed |-> FALSE, signaled |-> FALSE,
             error |-> Def(NoProcessFound), threw |-> TRUE]

\* the result of shellMessage for an unknown identifier
NotFoundResult(call) ==
    call @@ [stdout |-> <<>>, stderr |-> <<>>, completed |-> FALSE, signaled |-> FALSE,
             error |-> Def(NoProcessFound), threw |-> FALSE]

\* a signal to a completed session reported as an error
CompletedSignalError(call) ==
    call @@ [stdout |-> <<>>, stderr |-> <<>>, completed |-> TRUE, signaled |-> FALSE,
             error |-> Def("Process has already exited"), threw |-> FALSE]

\* the result of shellMessage for a signal to a completed session
CompletedSignalResult(call) ==
    call @@ [stdout |-> <<>>, stderr |-> <<>>, completed |-> TRUE, signaled |-> TRUE,
             error |-> Undefined, threw |-> FALSE]

\* the snapshot shellMessage returns after acting
SnapshotResult(call, inst) ==
    call @@ [stdout |-> inst.stdout, stderr |-> inst.stderr,
             completed |-> inst.completed, signaled |-> inst.signaled,
             error |-> Undefined, threw |-> FALSE]

\* the variables of the orchestrator and of the sub-agent supervisor
agentVars == <<runVars, subVars>>

\* shellStart.execute: the process is spawned; when it outlives the timeout it is
\* registered under a fresh identifier, otherwise its result is returned at once
ShellStart(id, mode) ==
    /\ id \in ShellIds \ shellUsed
    /\ shellUsed' = shellUsed \cup {id}
    /\ IF mode = "async"
       THEN /\ processStates' = Put(processStates, id, NewInstance)
            /\ shellProduced' = Put(shellProduced, id, NoOutput)
            /\ shellReturned' = Put(shellReturned, id, NoOutput)
       ELSE UNCHANGED <<processStates, shellProduced, shellReturned>>
    /\ UNCHANGED <<shellCall, shellResult, shellCount, shellClears>>
    /\ UNCHANGED agentVars

\* the running process of instance id writes a chunk on a stream
ProcessOutput(id, stream) ==
    /\ id \in DOMAIN processStates
    /\ ~processStates[id].completed
    /\ LET n == Len(shellProduced[id].stdout) + Len(shellProduced[id].stderr)
       IN  /\ n < MaxChunks
           /\ processStates' =
                  [processStates EXCEPT ![id] = Capture(@, stream, n + 1)]
           /\ shellProduced' =
                  [shellProduced EXCEPT ![id][stream] = Append(@, n + 1)]
    /\ UNCHANGED <<shellCall, shellResult, shellReturned, shellCount, shellUsed,
                   shellClears>>
    /\ UNCHANGED agentVars

\* the process of instance id exits, by itself or on the signal delivered to it
ProcessExit(id) ==
    /\ id \in DOMAIN processStates
    /\ ~processStates[id].completed
    /\ processStates' = OnExit(processStates, id)
    /\ UNCHANGED <<shellCall, shellResult, shellProduced, shellReturned, shellCount,
                   shellUsed, shellClears>>
    /\ UNCHANGED agentVars

\* shellMessage.execute up to the read: the lookup, the input, the signal
ShellMessage(id, stdin, signal) ==
    /\ ~IsDef(shellCall)
    /\ shellCount < MaxInteracts
    /\ shellCount' = shellCount + 1
    /\ LET known == id \in DOMAIN processStates
           call == [instanceId |-> id, stdin |-> stdin, signal |-> signal,
                    wasCompleted |-> known /\ processStates[id].completed]
       IN  IF ~known
           THEN /\ shellResult' = NotFoundResult(call)
                /\ UNCHANGED <<processStates, shellCall>>
           ELSE IF processStates[id].completed
           THEN IF IsDef(signal)
                THEN /\ shellResult' = CompletedSignalResult(call)
                     /\ UNCHANGED <<processStates, shellCall>>
                ELSE /\ shellCall' = Def(call)
                     /\ UNCHANGED <<processStates, shellResult>>
           ELSE LET written == IF IsDef(stdin)
                               THEN WriteStdin(processStates[id], stdin[1])
                               ELSE processStates[id]
                    signaled == IF IsDef(signal)
                                THEN DeliverSignal(written, signal[1])
                                ELSE written
                IN  /\ processStates' = [processStates EXCEPT ![id] = signaled]
                    /\ shellCall' = Def(call)
                    /\ UNCHANGED shellResult
    /\ UNCHANGED <<shellProduced, shellReturned, shellUsed, shellClears>>
    /\ UNCHANGED agentVars

\* the rest of shellMessage.execute: the buffers are read and emptied and the
\* snapshot is returned
ShellRead ==
    /\ IsDef(shellCall)
    /\ LET call == shellCall[1]
           id == call.instanceId
           inst == processStates[id]
       IN  /\ shellResult' = SnapshotResult(call, inst)
           /\ processStates' = [processStates EXCEPT ![id] = Drain(inst)]
           /\ shellReturned' =
                  [shellReturned EXCEPT
                      ![id] = [stdout |-> @.stdout \o shellResult'.stdout,
                               stderr |-> @.stderr \o shellResult'.stderr]]
    /\ shellCall' = Undefined
    /\ UNCHANGED <<shellProduced, shellCount, shellUsed, shellClears>>
    /\ UNCHANGED agentVars

\* processStates.clear(), between calls
ShellClear ==
    /\ ~IsDef(shellCall)
    /\ DOMAIN processStates # {}
    /\ processStates' = EmptyMap
    /\ shellProduced' = EmptyMap
    /\ shellReturned' = EmptyMap
    /\ shellClears' = shellClears + 1
    /\ UNCHANGED <<shellCall, shellResult, shellCount, shellUsed>>
    /\ UNCHANGED agentVars

ShellNext ==
    \/ \E id \in ShellIds, mode \in StartModes : ShellStart(id, mode)
    \/ \E id \in ShellIds, stream \in Streams : ProcessOutput(id, stream)
    \/ \E id \in ShellIds : ProcessExit(id)
    \/ \E id \in ShellCallIds, stdin \in Stdins, signal \in Signals :
            ShellMessage(id, stdin, signal)
    \/ ShellRead
    \/ ShellClear

\* the shell tools do not read the credential
ShellInit == Init /\ apiKey

ShellSpec == ShellInit /\ [][ShellNext]_vars

\* a process that was sent a signal exits
ShellFairSpec ==
    /\ ShellSpec
    /\ \A id \in ShellIds :
           WF_vars(ProcessExit(id) /\ IsDef(processStates[id].killed))
    /\ WF_vars(ShellRead)

(***************************************************************************)
(* Properties                                                              *)
(***************************************************************************)
\* the tool_use blocks of message m of the history
ToolUsesOf(m) == SelectSeq(messages[m].content, IsToolUse)

\* message m of the history is a bundle of tool results
IsToolResultMessage(m) ==
    /\ m > 1
    /\ messages[m].role = "user"

\* C1: every batch dispatched by executeTools yields exactly one result per
\* request, whatever subset of the calls throws or names an unknown tool: the
\* bundle appended to the history has as many results as the assistant message
\* before it has tool calls, and result k carries the id of request k.
C1_OneResultPerRequest ==
    /\ Len(results) = Len(toolCalls)
    /\ \A k \in DOMAIN results :
           results[k].settled => results[k].value.tool_use_id = toolCalls[k].id
    /\ \A m \in DOMAIN messages :
           IsToolResultMessage(m) =>
               /\ messages[m - 1].role = "assistant"
               /\ Len(messages[m].content) = Len(ToolUsesOf(m - 1))
               /\ \A k \in DOMAIN messages[m].content :
                      /\ messages[m].content[k].type = "tool_result"
                      /\ messages[m].content[k].tool_use_id = ToolUsesOf(m - 1)[k].id

\* C1 witness: a batch of two, the first an unknown tool (it threw), the second
\* a call that succeeded, has been bundled into the history.
C1_Witness ==
    /\ pc = "loop"
    /\ Len(toolCalls) = 2
    /\ toolCalls[1].name = "nonexistentTool" /\ threw[1]
    /\ toolCalls[2].name = "mockTool" /\ ~threw[2]
    /\ IsToolResultMessage(Len(messages))
    /\ Len(messages[Len(messages)].content) = 2

\* what call k of the current batch must hold once settled: its own failure as
\* text, or its own tool's output
ExpectedContent(k) ==
    IF threw[k]
    THEN IF toolCalls[k].name \in ToolNames
         THEN <<"Error: Exception thrown during tool execution.  Type: ", "Error",
                ", Message: ", "Deliberate failure">>
         ELSE <<"Error: Exception thrown during tool execution.  Type: ", "Error",
                ", Message: ", "No tool with the name '", toolCalls[k].name, "' exists.">>
    ELSE ToolOutput(toolCalls[k])

\* C2: a tool call that throws or names an unknown tool never aborts the batch
\* or the run: the failure is the text of that call's own result, the other
\* results are what their own calls produced, the bundle that reaches the
\* history holds exactly those texts, and the step that ends the batch goes on
\* with the loop or completes; it never sets the error, pushes an error event or
\* rejects the done promise.
C2_ToolFailureIsolated ==
    /\ [](\A k \in DOMAIN results :
              results[k].settled => results[k].value.content = ExpectedContent(k))
    /\ [][pc = "awaitTools" =>
              /\ pc' \in {"awaitTools", "loop", "done"}
              /\ currentError' = Undefined
              /\ donePromise'.state # "rejected"
              /\ \A e \in DOMAIN outMessages' : outMessages'[e].type # "error"
              /\ pc' # "awaitTools" =>
                     /\ Len(messages') = Len(messages) + 1
                     /\ Len(messages'[Len(messages')].content) = Len(toolCalls)
                     /\ \A k \in DOMAIN toolCalls :
                            messages'[Len(messages')].content[k].content = ExpectedContent(k)
                     /\ (pc' = "loop" => i' = i + 1)]_vars

\* C2 witness: a batch in which one call threw and the other succeeded has ended
\* and the loop went on to its next model request.
C2_Witness ==
    /\ pc = "awaitModel"
    /\ requests = 2
    /\ Len(toolCalls) = 2
    /\ threw[1] /\ ~threw[2]
    /\ currentError = Undefined

\* C3 (the claim as stated): a call that threw never carries the completion flag.
C3_FailedCallNotComplete ==
    \A k \in DOMAIN results :
        (results[k].settled /\ threw[k]) => ~results[k].value.isComplete

\* the first response of the run contains a call to the completion tool
FirstResponseCompletes ==
    /\ Len(responses) >= 1
    /\ \E k \in DOMAIN responses[1].content :
           /\ responses[1].content[k].type = "tool_use"
           /\ responses[1].content[k].name = "sequenceComplete"

\* index of the first completion-tool call of the current batch
FirstCompletionCall ==
    CHOOSE k \in DOMAIN toolCalls :
        /\ toolCalls[k].name = "sequenceComplete"
        /\ \A j \in 1..(k - 1) : toolCalls[j].name # "sequenceComplete"

\* C4: when the first response contains a completion-tool call, the run makes
\* exactly one model request (interactions = 1) and, once the batch has ended, is
\* done: a complete event was pushed, and state.result and the resolved value are
\* the content of the completion tool's result, verbatim.
C4_CompletesInOneIteration ==
    FirstResponseCompletes =>
        /\ requests = 1
        /\ interactions = 1
        /\ pc \in {"awaitTools", "done"}
        /\ pc = "done" =>
               LET answer == results[FirstCompletionCall].value.content
                   n == Len(outMessages)
               IN  /\ currentResult = Def(answer)
                   /\ donePromise.state = "resolved"
                   /\ donePromise.value[1].result = answer
                   /\ donePromise.value[1].interactions = 1
                   /\ outMessages[n - 1].type = "complete"
                   /\ outMessages[n - 1].content.result = answer
                   /\ outMessages[n - 1].content.interactions = 1

\* C4 witness: the run is done after a first response of some text and a
\* completion call, which returned its input.
C4_Witness ==
    /\ FirstResponseCompletes
    /\ pc = "done"
    /\ Len(toolCalls) = 1
    /\ ~threw[1]
    /\ currentResult = Def(<<"A">>)
    /\ \E e \in DOMAIN outMessages : outMessages[e].type = "assistant"

\* the provider answered every request so far, never with an empty content list
\* and never with a call to the completion tool
NoEmptyNoCompletion ==
    \A r \in DOMAIN responses :
        /\ Len(responses[r].content) > 0
        /\ \A k \in DOMAIN responses[r].content :
               responses[r].content[k].type = "tool_use" =>
                   responses[r].content[k].name # "sequenceComplete"

\* a model request of the run failed
ProviderFailed == IsDef(currentError) /\ currentError[1] = ProviderError

\* C5: in a run whose model requests are all answered, no response being empty
\* and no batch containing the completion tool, the run never issues more than
\* maxIterations model requests and ends only after exactly maxIterations of
\* them, resolved (not rejected) with the maximum-iterations sentinel, the
\* complete event and the end-of-stream marker being the last two pushes.
C5_CapYieldsSentinel ==
    (apiKey /\ ~ProviderFailed /\ NoEmptyNoCompletion) =>
        /\ requests <= maxIterations
        /\ pc = "done" =>
               LET n == Len(outMessages)
               IN  /\ requests = maxIterations
                   /\ Len(responses) = maxIterations
                   /\ currentResult = Def(MaxIterResult)
                   /\ currentError = Undefined
                   /\ donePromise.state = "resolved"
                   /\ donePromise.value[1].result = MaxIterResult
                   /\ outMessages[n - 1].type = "complete"
                   /\ outMessages[n - 1].content.result = MaxIterResult
                   /\ outMessages[n].type = "null"

\* C5 witness: the run ended at the cap after batches in which a call threw.
C5_Witness ==
    /\ pc = "done"
    /\ NoEmptyNoCompletion
    /\ requests = maxIterations
    /\ currentResult = Def(MaxIterResult)
    /\ Len(toolCalls) > 0 /\ threw[1]

\* the run has ended: the done promise is settled and the stream is closed
RunEnded ==
    /\ pc = "done"
    /\ donePromise.state \in {"resolved", "rejected"}
    /\ Len(outMessages) > 0
    /\ outMessages[Len(outMessages)].type = "null"
    /\ (donePromise.state = "resolved" <=> IsDef(currentResult))
    /\ (donePromise.state = "rejected" <=> IsDef(currentError))

\* C6: provided every model request and every tool call eventually settles,
\* every run eventually ends: the done promise resolves or rejects and the event
\* stream reaches its end-of-stream marker, whatever the provider answers.
C6_RunEventuallyEnds == <>RunEnded

\* C6 witness: a run that was never told to complete has ended, at the cap.
C6_Witness ==
    /\ RunEnded
    /\ requests = maxIterations
    /\ NoEmptyNoCompletion
    /\ donePromise.state = "resolved"

\* C7 (the claim as stated): once an abort has been written to the inbound
\* channel, the run issues no new model request.
C7_NoRequestAfterAbort ==
    [][([type |-> "abort"] \in inWritten) => requests' = requests]_vars

\* C8: at most one model request is in flight, and a new one is issued only
\* when the previous response has been received and every call of the batch it
\* triggered has settled.
C8_OneRequestInFlight ==
    /\ [](inflight \in {0, 1})
    /\ [](inflight = 1 <=> pc = "awaitModel")
    /\ [][requests' # requests =>
              /\ requests' = requests + 1
              /\ inflight = 0
              /\ Len(responses) = requests
              /\ pc # "awaitTools"
              /\ \A k \in DOMAIN results : results[k].settled]_vars

\* C8 witness: the second model request is in flight, after a batch of two.
C8_Witness ==
    /\ pc = "awaitModel"
    /\ requests = 2
    /\ inflight = 1
    /\ Len(toolCalls) = 2

\* positions of the terminal events of the stream
TerminalEvents == {e \in DOMAIN outMessages : outMessages[e].type \in {"complete", "error"}}

\* C9: a run becomes terminal exactly once. At most one terminal event is ever
\* on the stream and exactly one once the run is done; it is followed at once by
\* the end-of-stream marker, which is the last push; the first event is the user
\* event with the initial prompt; at most one of state.result and state.error is
\* set, and once set neither they nor the stream change.
C9_TerminalExactlyOnce ==
    /\ [](/\ Cardinality(TerminalEvents) <= 1
          /\ (pc = "done" <=> Cardinality(TerminalEvents) = 1)
          /\ \A e \in TerminalEvents :
                 /\ e + 1 = Len(outMessages)
                 /\ outMessages[e + 1].type = "null"
          /\ \A e \in DOMAIN outMessages :
                 outMessages[e].type = "null" => e = Len(outMessages) /\ e - 1 \in TerminalEvents
          /\ pc # "new" =>
                 /\ outMessages[1].type = "user"
                 /\ outMessages[1].content = initialPrompt
          /\ \A e \in DOMAIN outMessages : outMessages[e].type = "user" => e = 1
          /\ ~(IsDef(currentResult) /\ IsDef(currentError))
          /\ (pc = "done" <=> (IsDef(currentResult) \/ IsDef(currentError)))
          /\ (IsDef(currentResult) <=> donePromise.state = "resolved")
          /\ (IsDef(currentError) <=> donePromise.state = "rejected"))
    /\ [][/\ (IsDef(currentResult) \/ IsDef(currentError)) =>
                 /\ currentResult' = currentResult
                 /\ currentError' = currentError
                 /\ donePromise' = donePromise
          /\ TerminalEvents # {} => outMessages' = outMessages
          /\ \A e \in DOMAIN outMessages :
                 e \in DOMAIN outMessages' /\ outMessages'[e].type = outMessages[e].type]_vars

\* C9 witness: a run that pushed an assistant event has ended with a result.
C9_Witness ==
    /\ pc = "done"
    /\ IsDef(currentResult)
    /\ Len(outMessages) = 4
    /\ outMessages[2].type = "assistant"
    /\ outMessages[3].type = "complete"

\* C10: when the credential is missing at the call, the run fails before any
\* model request: no request is ever issued, the stream is the user event, an
\* error event and the end-of-stream marker, state.error is set and the done
\* promise is rejected with it.
C10_MissingCredentialIsFatal ==
    (~apiKey /\ pc # "new") =>
        /\ pc = "done"
        /\ requests = 0
        /\ inflight = 0
        /\ Len(outMessages) = 3
        /\ outMessages[1].type = "user"
        /\ outMessages[2].type = "error"
        /\ outMessages[2].content = ApiKeyError
        /\ outMessages[3].type = "null"
        /\ currentError = Def(ApiKeyError)
        /\ currentResult = Undefined
        /\ donePromise = Rejected(ApiKeyError)

\* C10 witness: toolAgent was called without the credential.
C10_Witness ==
    /\ ~apiKey
    /\ pc = "done"
    /\ IsDef(currentError)

\* the stream holds no complete event
NoCompleteEvent == \A e \in DOMAIN outMessages : outMessages[e].type # "complete"

\* C11: a failed model request is fatal and is never retried: every earlier
\* request was answered, the failing one is the last of the run, the stream ends
\* with the error event and the end-of-stream marker, it holds no complete
\* event, and the done promise is rejected with that failure.
C11_ProviderFailureIsFatal ==
    /\ [](ProviderFailed =>
              LET n == Len(outMessages)
              IN  /\ pc = "done"
                  /\ requests = Len(responses) + 1
                  /\ inflight = 0
                  /\ outMessages[n - 1].type = "error"
                  /\ outMessages[n - 1].content = ProviderError
                  /\ outMessages[n].type = "null"
                  /\ NoCompleteEvent
                  /\ currentResult = Undefined
                  /\ donePromise.state = "rejected"
                  /\ donePromise.reason = Def(ProviderError))
    /\ [][ProviderFailed => (requests' = requests /\ outMessages' = outMessages)]_vars

\* C11 witness: the second model request of a run failed.
C11_Witness ==
    /\ ProviderFailed
    /\ requests = 2
    /\ Len(responses) = 1

RECURSIVE SumInput(_)
SumInput(rs) ==
    IF Len(rs) = 0 THEN 0 ELSE rs[1].usage.input_tokens + SumInput(Tail(rs))

RECURSIVE SumOutput(_)
SumOutput(rs) ==
    IF Len(rs) = 0 THEN 0 ELSE rs[1].usage.output_tokens + SumOutput(Tail(rs))

\* C12 (the claim as stated): the token totals of the final result are the sums
\* of the usage of every response received, an empty response included.
C12_TokensAreSums ==
    donePromise.state = "resolved" =>
        /\ donePromise.value[1].tokens.input = SumInput(responses)
        /\ donePromise.value[1].tokens.output = SumOutput(responses)

\* C13 (the claim as stated): the counters read from the run handle are the
\* running totals at every point of the run.
C13_LiveCounters ==
    pc # "new" =>
        /\ handle.input_tokens = totalInputTokens
        /\ handle.output_tokens = totalOutputTokens

\* the last response received has an empty content list
LastResponseEmpty ==
    /\ Len(responses) > 0
    /\ Len(responses[Len(responses)].content) = 0

\* C14: a response with an empty content list ends the run as a success at that
\* iteration: the step that receives it appends nothing to the history,
\* dispatches no tool and pushes only the complete event and the end-of-stream
\* marker; afterwards the run is done, resolved with the empty-message result,
\* and issues no further model request.
C14_EmptyResponseCompletes ==
    /\ [](LastResponseEmpty =>
              LET n == Len(outMessages)
              IN  /\ pc = "done"
                  /\ requests = Len(responses)
                  /\ currentResult = Def(EmptyResult)
                  /\ currentError = Undefined
                  /\ donePromise.state = "resolved"
                  /\ donePromise.value[1].result = EmptyResult
                  /\ outMessages[n - 1].type = "complete"
                  /\ outMessages[n].type = "null")
    /\ [](\A r \in DOMAIN responses :
              Len(responses[r].content) = 0 => r = Len(responses))
    /\ [][(Len(responses') > Len(responses) /\ LastResponseEmpty') =>
              /\ messages' = messages
              /\ toolCalls' = toolCalls
              /\ results' = results
              /\ Len(outMessages') = Len(outMessages) + 2
              /\ pc' = "done"]_vars
    /\ [][LastResponseEmpty => (requests' = requests /\ messages' = messages)]_vars

\* C14 witness: the second response of a run was empty.
C14_Witness ==
    /\ LastResponseEmpty
    /\ Len(responses) = 2
    /\ pc = "done"

\* the run was ended by a batch that holds a completion-tool call
CompletedByTool ==
    /\ pc = "done"
    /\ IsDef(currentResult)
    /\ \E k \in DOMAIN toolCalls : toolCalls[k].name = "sequenceComplete"

\* C15: when a batch holds several completion-tool calls, the final answer is the
\* content of the first of them in request order, in whatever order the calls
\* settled.
C15_FirstCompletionWins ==
    CompletedByTool =>
        LET answer == results[FirstCompletionCall].value.content
        IN  /\ currentResult = Def(answer)
            /\ donePromise.value[1].result = answer
            /\ outMessages[Len(outMessages) - 1].content.result = answer

\* C15 witness: two completion calls with different inputs, the second settled
\* first, and the answer is the first one's.
C15_Witness ==
    /\ CompletedByTool
    /\ Len(toolCalls) = 2
    /\ toolCalls[1].name = "sequenceComplete" /\ toolCalls[2].name = "sequenceComplete"
    /\ results[1].value.content = <<"A">> /\ results[2].value.content = <<"B">>
    /\ settleOrder = <<2, 1>>
    /\ currentResult = Def(<<"A">>)

\* the step is a subAgentMessage call (message or abort) in its part before the
\* await
IsCall == callCount' # callCount

\* no step takes an instance out of the registry or clears its aborted flag
AbortedIsLatched ==
    \A id \in DOMAIN subAgentStates :
        subAgentStates[id].aborted =>
            (id \in DOMAIN subAgentStates' /\ subAgentStates'[id].aborted)

C17_SecondAbortSucceeds ==
    [][(IsCall /\ apiKey /\ lastCall'.abort /\ lastCall'.wasAborted) =>
           /\ lastCall'.outcome = SubAgentAborted
           /\ subAgentStates' = subAgentStates]_vars

\* C18 (the claim as stated): an abort marks the instance aborted and writes an
\* abort signal to the inbound channel of its nested run, which then issues no
\* further model request.
C18_AbortReachesNestedRun ==
    /\ [](\A id \in abortedByCall : subAgentStates[id].aborted)
    /\ [](runOwner \in abortedByCall => [type |-> "abort"] \in inWritten)
    /\ [][(runOwner \in abortedByCall /\ runOwner' = runOwner) =>
              requests' = requests]_vars

\* C19 (the claim as stated): a message accepted for a known instance that is
\* not aborted is written to the inbound channel of that instance's nested run
\* and starts no other conversation.
C19_MessageReachesNestedRun ==
    [][(IsCall /\ lastCall'.outcome = Awaiting) =>
           /\ msgCalls' = msgCalls
           /\ lastCall'.instanceId = runOwner =>
                  \E c \in inWritten' : c.type = "message"]_vars

\* what a call on an unknown identifier leaves alone
UnknownIdFrame ==
    /\ subAgentStates' = subAgentStates
    /\ msgCalls' = msgCalls
    /\ requests' = requests
    /\ startPromise' = startPromise

\* C20 (the claim as stated): a message or abort for an identifier that is not
\* in the registry fails with 'not found' and changes nothing.
C20_UnknownIdNotFound ==
    [][(IsCall /\ lastCall'.instanceId \notin DOMAIN subAgentStates) =>
           (lastCall'.outcome = NotFound /\ UnknownIdFrame)]_vars

\* C20 (amended): a message or abort for an identifier that is not in the
\* registry fails and changes nothing (no entry is created, no request is
\* issued): with 'not found' when the credential is set, with the credential
\* error, which is checked first, when it is not.
C20_UnknownIdFails ==
    [][(IsCall /\ lastCall'.instanceId \notin DOMAIN subAgentStates) =>
           /\ lastCall'.outcome = (IF apiKey THEN NotFound ELSE KeyNotSet)
           /\ UnknownIdFrame]_vars

\* C20 witness: with an instance registered, a call on another identifier failed
\* with 'not found'.
C20_Witness ==
    /\ DOMAIN subAgentStates = {"id1"}
    /\ lastCall.instanceId = "invalid-id"
    /\ lastCall.outcome = NotFound
    /\ callCount = 1

\* the events of the nested stream that the handlers of the spawn have seen
Seen == SubSeq(outMessages, 1, delivered)

\* the positions of the assistant events among the events seen
SeenAssistant == {e \in 1..delivered : outMessages[e].type = "assistant"}

\* the end of the nested stream has been seen
SeenEnd == \E e \in 1..delivered : outMessages[e].type = "null"

\* the promise of a spawn, once settled, is never settled again
SettlesOnce ==
    \A id \in DOMAIN startPromise :
        startPromise[id].state # "pending" =>
            (id \in DOMAIN startPromise' /\ startPromise'[id] = startPromise[id])

\* C21: the spawn resolves with the content of the first assistant event of the
\* nested stream, fails with the stream-ended error when the stream ends with
\* no assistant event seen, stays pending otherwise, and settles at most once.
C21_InitialResponse ==
    /\ [](runOwner \in DOMAIN startPromise =>
            LET sp == startPromise[runOwner]
            IN  IF SeenAssistant # {}
                THEN /\ sp.state = "resolved"
                     /\ \E a \in SeenAssistant :
                            /\ \A b \in SeenAssistant : a <= b
                            /\ sp.response = Def(outMessages[a].content)
                ELSE IF SeenEnd
                THEN sp.state = "rejected" /\ sp.error = StreamEndedError
                ELSE sp.state = "pending")
    /\ [][SettlesOnce]_vars

\* C21 witness: the first response of the nested run was a lone sequenceComplete
\* call, the run completed with no assistant event, and the spawn failed.
C21_Witness ==
    /\ runOwner \in DOMAIN startPromise
    /\ startPromise[runOwner].state = "rejected"
    /\ startPromise[runOwner].error = StreamEndedError
    /\ delivered = Len(outMessages)
    /\ \E e \in DOMAIN outMessages : outMessages[e].type = "complete"
    /\ requests = 1

\* C22 (the claim as stated): a spawn without the credential fails with the
\* error saying that ANTHROPIC_API_KEY is not set.
C22_SpawnWithoutKey ==
    ~apiKey =>
        \A id \in DOMAIN startPromise :
            /\ startPromise[id].state # "resolved"
            /\ startPromise[id].state = "rejected" => startPromise[id].error = KeyNotSet

\* the step is the settling of a subAgentMessage call that was awaiting the model
IsSettle == Len(msgCalls') < Len(msgCalls)

\* the step is a spawn
IsSpawn == DOMAIN subAgentStates' # DOMAIN subAgentStates

\* the entries of the registry other than id are left as they were
OthersUnchanged(id) ==
    \A other \in DOMAIN subAgentStates \ {id} :
        /\ other \in DOMAIN subAgentStates'
        /\ subAgentStates'[other] = subAgentStates[other]

\* C23: a spawn adds one entry under an identifier that was not in the registry
\* and leaves the others alone, no entry is ever removed, and a message or an
\* abort on one instance, at the call and when it settles, leaves the aborted
\* flag and the mirror of every other instance unchanged.
C23_SiblingsIndependent ==
    /\ [][DOMAIN subAgentStates \subseteq DOMAIN subAgentStates']_vars
    /\ [][IsSpawn =>
              /\ runOwner' \notin DOMAIN subAgentStates
              /\ DOMAIN subAgentStates' = DOMAIN subAgentStates \cup {runOwner'}
              /\ OthersUnchanged(runOwner')]_vars
    /\ [][(IsCall \/ IsSettle) => OthersUnchanged(lastCall'.instanceId)]_vars

\* C23 witness: two instances are registered; one was aborted by a call, the
\* other one was not, and a message to it was answered and is in its mirror.
C23_Witness ==
    /\ DOMAIN subAgentStates = {"id1", "id2"}
    /\ callCount = 2
    /\ \E a \in abortedByCall, b \in DOMAIN subAgentStates :
            /\ a # b
            /\ subAgentStates[a].aborted
            /\ ~subAgentStates[b].aborted
            /\ Len(subAgentStates[b].messages) = 4
            /\ lastCall.instanceId = b
            /\ lastCall.outcome = Returned

\* the step is the first part of a shellMessage call
IsShellCall == shellCount' # shellCount

\* the step returns the result of a shellMessage call
ShellReturns ==
    \/ IsShellCall /\ ~IsDef(shellCall')
    \/ IsDef(shellCall) /\ ~IsDef(shellCall')

\* the shellMessage call made last: the one that has not read yet, or else the
\* one whose result is the last result
TheShellCall == IF IsDef(shellCall) THEN shellCall[1] ELSE shellResult

\* the instances of the registry before and after the step
Staying == DOMAIN processStates \cap DOMAIN processStates'

\* C24: an entry leaves the shell registry only in a clear; the completed flag
\* of an instance never goes back to false; and every poll of an instance that
\* was completed when polled succeeds and reports completed = true.
C24_NeverEvicted ==
    /\ [][DOMAIN processStates \subseteq DOMAIN processStates'
          \/ shellClears' # shellClears]_vars
    /\ [][\A id \in Staying :
              processStates[id].completed => processStates'[id].completed]_vars
    /\ [][(ShellReturns /\ shellResult'.wasCompleted) =>
              /\ shellResult'.completed
              /\ ~shellResult'.threw
              /\ ~IsDef(shellResult'.error)]_vars

\* C24 witness: the process has exited by itself, and the third poll of the
\* instance still finds it and reports it completed.
C24_Witness ==
    /\ shellCount = 3
    /\ "s1" \in DOMAIN processStates
    /\ processStates["s1"].exit = Def("0")
    /\ ~IsDef(shellCall)
    /\ shellResult.instanceId = "s1"
    /\ ~IsDef(shellResult.signal)
    /\ shellResult.wasCompleted
    /\ shellResult.completed

\* C25: what the process has written on a stream is what the reads returned so
\* far followed by what is in the buffer of the stream: nothing is lost, nothing
\* is returned twice, and the order is kept.
C25_DrainedOnRead ==
    \A id \in DOMAIN processStates :
        /\ shellProduced[id].stdout = shellReturned[id].stdout \o processStates[id].stdout
        /\ shellProduced[id].stderr = shellReturned[id].stderr \o processStates[id].stderr

\* C25 witness: the process wrote two chunks on stdout, each returned by a read
\* of its own, the second read having returned the second chunk only.
C25_Witness ==
    /\ "s1" \in DOMAIN processStates
    /\ shellProduced["s1"].stdout = <<1, 2>>
    /\ shellReturned["s1"].stdout = <<1, 2>>
    /\ shellResult.stdout = <<2>>
    /\ shellCount = 2

\* C26: a signal sent to a session that has completed returns at once with
\* signaled = true and completed = true, throws nothing, reports no error, and
\* leaves the instance and the registry as they were.
C26_SignalAfterCompletion ==
    [][(IsShellCall /\ IsDef(TheShellCall'.signal) /\ TheShellCall'.wasCompleted) =>
           /\ ~IsDef(shellCall')
           /\ shellResult'.signaled
           /\ shellResult'.completed
           /\ ~shellResult'.threw
           /\ ~IsDef(shellResult'.error)
           /\ processStates' = processStates]_vars

\* C26 witness: the process exited by itself, never signaled, and a SIGINT sent
\* afterwards was answered with signaled = true and completed = true.
C26_Witness ==
    /\ "s1" \in DOMAIN processStates
    /\ processStates["s1"].completed
    /\ ~processStates["s1"].signaled
    /\ shellResult.instanceId = "s1"
    /\ shellResult.signal = Def("SIGINT")
    /\ shellResult.wasCompleted
    /\ shellResult.signaled
    /\ shellResult.completed
    /\ ~IsDef(shellResult.error)

\* the instance has been sent a signal while its process was running
Killed(id) == id \in DOMAIN processStates /\ IsDef(processStates[id].killed)

\* C27: the call that sends a signal to a running session returns
\* signaled = true; the signaled process exits (unless the registry is cleared
\* first); and a poll made once it has exited reports completed = true and no
\* error.
C27_SigtermThenCompleted ==
    /\ [][(ShellReturns /\ IsDef(shellResult'.signal) /\ ~shellResult'.wasCompleted
           /\ ~IsDef(shellResult'.error)) => shellResult'.signaled]_vars
    /\ \A id \in ShellIds :
           Killed(id) ~> (id \notin DOMAIN processStates \/ processStates[id].completed)
    /\ [][(ShellReturns /\ ~IsDef(shellResult'.signal) /\ shellResult'.wasCompleted
           /\ Killed(shellResult'.instanceId)) =>
              /\ shellResult'.completed
              /\ ~IsDef(shellResult'.error)
              /\ ~shellResult'.threw]_vars

\* C27 witness: SIGTERM was sent to the running process and answered with
\* signaled = true before the process had exited.
C27_Witness ==
    /\ "s1" \in DOMAIN processStates
    /\ ~processStates["s1"].completed
    /\ processStates["s1"].killed = Def("SIGTERM")
    /\ ~IsDef(shellCall)
    /\ shellResult.instanceId = "s1"
    /\ shellResult.signal = Def("SIGTERM")
    /\ shellResult.signaled
    /\ ~shellResult.completed

\* C28: the signaled flag of an instance never goes back to false, and every
\* snapshot of an instance taken after a signal was delivered to it reports
\* signaled = true.
C28_SignaledIsSticky ==
    /\ [][\A id \in Staying :
              processStates[id].signaled => processStates'[id].signaled]_vars
    /\ [][(ShellReturns /\ Killed(shellResult'.instanceId)) =>
              shellResult'.signaled]_vars

\* C28 witness: a plain poll made after the signaled process has exited reports
\* signaled = true.
C28_Witness ==
    /\ "s1" \in DOMAIN processStates
    /\ processStates["s1"].exit = Def("SIGTERM")
    /\ ~IsDef(shellCall)
    /\ shellResult.instanceId = "s1"
    /\ ~IsDef(shellResult.signal)
    /\ shellResult.wasCompleted
    /\ shellResult.signaled
    /\ shellResult.completed

\* C29: a shellMessage call on an identifier that is not in the registry returns
\* a result with an error and completed = false, throws nothing, and leaves the
\* registry as it was.
C29_UnknownShellId ==
    [][(IsShellCall /\ TheShellCall'.instanceId \notin DOMAIN processStates) =>
           /\ ~IsDef(shellCall')
           /\ IsDef(shellResult'.error)
           /\ ~shellResult'.completed
           /\ ~shellResult'.threw
           /\ processStates' = processStates]_vars

\* C29 witness: with a session registered, a call on another identifier returned
\* the not-found error.
C29_Witness ==
    /\ DOMAIN processStates = {"s1"}
    /\ shellResult.instanceId = "nonexistent-id"
    /\ shellResult.error = Def(NoProcessFound)
    /\ ~shellResult.completed

\* message m + 1 of the history is the bundle of the results of the tool calls
\* of message m, one per call and in the order of the calls
FollowedByItsResults(m) ==
    /\ messages[m + 1].role = "user"
    /\ Len(messages[m + 1].content) = Len(ToolUsesOf(m))
    /\ \A k \in DOMAIN messages[m + 1].content :
           /\ messages[m + 1].content[k].type = "tool_result"
           /\ messages[m + 1].content[k].tool_use_id = ToolUsesOf(m)[k].id
    /\ m + 2 \in DOMAIN messages => messages[m + 2].role = "assistant"

\* every assistant message of the history is followed as its tool calls require
HistoryWellFormed ==
    \A m \in DOMAIN messages :
        messages[m].role = "assistant" =>
            IF Len(ToolUsesOf(m)) = 0
            THEN m + 1 \in DOMAIN messages => messages[m + 1].role = "assistant"
            ELSE IF m = Len(messages)
            THEN pc = "awaitTools"
            ELSE FollowedByItsResults(m)

\* the step appends a bundle of tool results to the history
AppendsResults ==
    /\ Len(messages) > 0
    /\ Len(messages') = Len(messages) + 1
    /\ messages'[Len(messages')].role = "user"

\* C30: the history only grows at its end; every assistant message with k > 0
\* tool calls is followed by exactly one user message with the k results in the
\* order of the calls, or is the last message while its batch is being awaited;
\* an assistant message with no tool call is followed by no bundle; and a bundle
\* is appended only once every call of the batch has settled, with no terminal
\* event emitted before it and no model request issued or in flight.
C30_HistoryWellFormed ==
    /\ []HistoryWellFormed
    /\ [][/\ Len(messages) <= Len(messages')
          /\ SubSeq(messages', 1, Len(messages)) = messages]_vars
    /\ [][AppendsResults =>
              /\ \A k \in DOMAIN results : results[k].settled
              /\ Len(results) = Len(ToolUsesOf(Len(messages)))
              /\ TerminalEvents = {}
              /\ inflight = 0
              /\ requests' = requests]_vars

\* C30 witness: the two calls of a batch settled in the reverse order of the
\* requests, and the bundle in the history carries the results in the order of
\* the requests.
C30_Witness ==
    /\ settleOrder = <<2, 1>>
    /\ Len(messages) = 3
    /\ messages[2].role = "assistant"
    /\ Len(ToolUsesOf(2)) = 2
    /\ FollowedByItsResults(2)
    /\ messages[3].content[1].tool_use_id = toolCalls[1].id
    /\ messages[3].content[1].tool_use_id # messages[3].content[2].tool_use_id

\* the complete events emitted so far
CompleteEvents == {e \in DOMAIN outMessages : outMessages[e].type = "complete"}

\* C31: the interaction count of the complete event and of the resolved result
\* is the number of model requests issued in the run, each of them answered,
\* and is at most maxIterations.
C31_InteractionsCountRequests ==
    /\ \A e \in CompleteEvents :
           /\ outMessages[e].content.interactions = requests
           /\ outMessages[e].content.interactions = Len(responses)
           /\ outMessages[e].content.interactions <= maxIterations
    /\ donePromise.state = "resolved" =>
           /\ donePromise.value[1].interactions = requests
           /\ donePromise.value[1].interactions <= maxIterations

\* C31 witness: the run used every iteration, its last response was empty, and
\* the complete event counts that request too.
C31_Witness ==
    /\ pc = "done"
    /\ currentResult = Def(EmptyResult)
    /\ requests = maxIterations
    /\ Len(responses[requests].content) = 0
    /\ \E e \in CompleteEvents : outMessages[e].content.interactions = maxIterations
    /\ donePromise.state = "resolved"

\* the spawn of the instance has returned its identifier to the caller
Spawned(id) == id \in DOMAIN startPromise /\ startPromise[id].state = "resolved"

\* C32 (the claim as stated): once a spawned instance is aborted its mirror never
\* changes, and a message call that was awaiting the model when the instance was
\* aborted appends nothing and does not return a response.
C32_MirrorFrozenOnceAborted ==
    /\ [][(IsSettle /\ Spawned(lastCall'.instanceId)
           /\ subAgentStates[lastCall'.instanceId].aborted) =>
              /\ lastCall'.outcome # Returned
              /\ subAgentStates' = subAgentStates]_vars
    /\ [][\A id \in DOMAIN subAgentStates :
              (Spawned(id) /\ subAgentStates[id].aborted) =>
                  subAgentStates'[id].messages = subAgentStates[id].messages]_vars

\* the roles of h alternate, starting with user
Alternates(h) ==
    \A j \in DOMAIN h : h[j].role = (IF j % 2 = 1 THEN "user" ELSE "assistant")

\* h is made of whole user / assistant pairs
WholePairs(h) == Len(h) % 2 = 0 /\ Alternates(h)

\* no subAgentMessage call on instance id is awaiting the model
NoneInFlight(id) == \A k \in DOMAIN msgCalls : msgCalls[k].instanceId # id

\* C33 (the claim as stated): the history a message operation sends for a spawned
\* instance, messaged one call at a time, holds the original prompt exactly once,
\* alternates user and assistant and ends with the new user message; and the
\* mirror of every instance is made of whole user / assistant pairs.
C33_HistoryAlternates ==
    /\ [](\A id \in DOMAIN subAgentStates : WholePairs(subAgentStates[id].messages))
    /\ [][(IsCall /\ lastCall'.outcome = Awaiting
           /\ Spawned(lastCall'.instanceId) /\ NoneInFlight(lastCall'.instanceId)) =>
              LET sent == msgCalls'[Len(msgCalls')]
                  h == sent.messages
                  prompt == subAgentStates[sent.instanceId].prompt
              IN  /\ Cardinality({j \in DOMAIN h : h[j].content = prompt}) = 1
                  /\ Alternates(h)
                  /\ h[Len(h)] = [role |-> "user", content |-> sent.message]]_vars

====
